---- MODULE Spec2Model ----
(***************************************************************************)
(* Model of the music-artist analytics pipeline (data_collector.py) and of *)
(* the Telegram front-end that drives it (bot.py).                         *)
(*                                                                         *)
(* Spec    : one run of process_data -> collect_all_data, step by step,    *)
(*           with the environment (catalog, token endpoint, search         *)
(*           endpoint, file system, clock) answering nondeterministically. *)
(* SpecBot : the event loop of bot.py: handlers, process_data tasks and    *)
(*           progress tasks interleaving at their await points.            *)
(* SpecBotLive : SpecBot with the loop, the clock and the cleanup job       *)
(*           going on for ever.                                            *)
(* SpecLive : Spec with the interpreter going on for ever, the services    *)
(*           answering or not.                                             *)
(* SpecLoop : the same loop with two users and the clock standing still.   *)
(* SpecProgress : one analysis, from the creation of its task on.          *)
(* SpecFetch, SpecNorm : fetch_artists and process_artist_data alone.      *)
(* SpecReport : the summary and the per-million chart of visualizer.py.    *)
(***************************************************************************)
EXTENDS Integers, Sequences, FiniteSets, TLC

(* ------------------------------ bounds --------------------------------- *)
\* number of catalog pages fetch_artists may ask for when it is run alone
\* (number_of_artists = 100 * pages)
MaxPages == 3
\* number of catalog pages a whole pipeline run may ask for
MaxRunPages == 1
\* records the catalog serves to one run, over all its pages
MaxRecords == 2
\* the clock runs from 0 to MaxTime
MaxTime == 3
\* a token's expires_in, in clock ticks
MaxExpiresIn == 2

\* users talking to the bot
NumUsers == 1
\* users talking to the bot where their turns at the loop are examined
LoopUsers == 2
\* process_data tasks alive at a time there
LoopTasks == 1
\* process_data tasks alive at a time
MaxTasks == 2
\* progress messages of a run that the loop gets to deliver
ProgressPerRun == 2

(* ------------------------- program constants --------------------------- *)
\* range(2, number_of_artists + 2, 100)
FirstOffset == 2
PageSize == 100
HTTP_OK == 200
\* the status codes a service answers with
StatusCodes == {200, 500}

(* None / a value: an optional is the empty or the one-element sequence *)
None == <<>>
Some(v) == <<v>>
IsNone(o) == o = <<>>
Val(o) == o[1]

(* ------------------------------ text ----------------------------------- *)
\* A string is a sequence of code points.
Chr_0 == 48
Chr_9 == 57
AsciiLimit == 128
\* str.isascii(): every code point below 128
isascii(s) == \A i \in 1..Len(s) : s[i] < AsciiLimit
\* the names used by the runs below
NameABBA == <<65, 66, 66, 65>>
NameBjork == <<66, 106, 246, 114, 107>>
NameKiss == <<75, 105, 115, 115>>

\* Country names are kept as strings; lower() is the table of the names used.
lower(c) ==
    CASE c = "Germany" -> "germany"
      [] c = "GERMANY" -> "germany"
      [] c = "germany" -> "germany"
      [] c = "Sweden" -> "sweden"
      [] c = "sweden" -> "sweden"
      [] c = "Atlantis" -> "atlantis"
      [] OTHER -> c

\* a population as the reference holds it: an int, nothing (NaN), or text
PopInt(n) == [kind |-> "int", value |-> n]
PopMissing == [kind |-> "nan", value |-> 0]
PopText == [kind |-> "str", value |-> 0]

\* CountryInfo().all(): the reference table (name, population)
get_country_data ==
    << [Country_name |-> "Germany", population |-> PopInt(80)],
       [Country_name |-> "Sweden", population |-> PopInt(10)] >>

(* --------------------------- raw records ------------------------------- *)
\* The shapes of catalog records a page may carry (the id is given on arrival).
ShapeKept ==
    [name |-> NameABBA, score |-> 100, country |-> Some("Sweden"),
     begin |-> Some(<<49, 57, 55, 50>>), end |-> Some(<<49, 57, 56, 50>>),
     ended |-> Some(TRUE)]
ShapeNonAscii ==
    [name |-> NameBjork, score |-> 90, country |-> Some("Sweden"),
     begin |-> Some(<<49, 57, 54, 53>>), end |-> None, ended |-> None]
ShapeNoCountry ==
    [name |-> NameKiss, score |-> 100, country |-> Some("Atlantis"),
     begin |-> Some(<<49, 57, 55, 51, 45, 48, 49>>), end |-> None,
     ended |-> Some(TRUE)]
RecordShapes == {ShapeKept, ShapeNonAscii, ShapeNoCountry}

SeqsUpTo(S, n) == UNION {[1..k -> S] : k \in 0..n}

\* a page of records whose ids continue after `base` (catalog ids are unique)
WithIds(shapes, base) ==
    [i \in 1..Len(shapes) |->
        [id |-> base + i, name |-> shapes[i].name, score |-> shapes[i].score,
         country |-> shapes[i].country, begin |-> shapes[i].begin,
         end |-> shapes[i].end, ended |-> shapes[i].ended]]

(* ------------------------- process_artist_data ------------------------- *)
\* superscript two, a character str.isdigit() accepts and int() does not
Chr_Sup2 == 178
\* str.isdecimal() of one character: the ASCII digits
IsDecimalChar(c) == c >= Chr_0 /\ c <= Chr_9
\* str.isdigit() of one character: the decimal digits and the digits that are
\* not decimal, of which superscript two stands for all
IsDigitChar(c) == IsDecimalChar(c) \/ c = Chr_Sup2
\* str.isdigit(): not empty and every character a digit
isdigit(s) == Len(s) > 0 /\ \A i \in 1..Len(s) : IsDigitChar(s[i])

RECURSIVE ParseInt(_)
ParseInt(s) ==
    IF Len(s) = 0 THEN 0
    ELSE 10 * ParseInt(SubSeq(s, 1, Len(s) - 1)) + (s[Len(s)] - Chr_0)

YearLen == 4
\* str(date_str)[:4]
YearPrefix(s) == SubSeq(s, 1, IF Len(s) < YearLen THEN Len(s) ELSE YearLen)

\* extract_year, line 150: int(year) raises ValueError when year.isdigit()
\* let a digit through that is not decimal
extract_year_raises(date_str) ==
    /\ ~IsNone(date_str)
    /\ isdigit(YearPrefix(Val(date_str)))
    /\ \E i \in 1..Len(YearPrefix(Val(date_str))) :
          ~IsDecimalChar(YearPrefix(Val(date_str))[i])

\* extract_year: None for a null, else the first four characters as an int
\* when isdigit() holds of them, else None
extract_year(date_str) ==
    IF IsNone(date_str) THEN None
    ELSE LET year == YearPrefix(Val(date_str))
         IN IF isdigit(year) THEN Some(ParseInt(year)) ELSE None

\* sort_values(by='score', ascending=False): insertion into a descending list,
\* an equal score going after the ones already there
RECURSIVE InsertByScore(_, _)
InsertByScore(sorted, r) ==
    IF Len(sorted) = 0 THEN <<r>>
    ELSE IF sorted[Len(sorted)].score >= r.score THEN Append(sorted, r)
    ELSE Append(InsertByScore(SubSeq(sorted, 1, Len(sorted) - 1), r),
                sorted[Len(sorted)])

RECURSIVE SortByScore(_)
SortByScore(rs) ==
    IF Len(rs) = 0 THEN <<>>
    ELSE InsertByScore(SortByScore(SubSeq(rs, 1, Len(rs) - 1)), rs[Len(rs)])

\* df[is_english]: the rows whose name is ASCII, in order
RECURSIVE FilterEnglish(_)
FilterEnglish(rows) ==
    IF Len(rows) = 0 THEN <<>>
    ELSE LET rest == FilterEnglish(SubSeq(rows, 1, Len(rows) - 1))
             last == rows[Len(rows)]
         IN IF isascii(last.name) THEN Append(rest, last) ELSE rest

\* one row of the table: the derived columns of lines 140-155
DeriveRow(r) ==
    LET yf == extract_year(r.begin)
        yd == extract_year(r.end)
    IN [id |-> r.id, name |-> r.name, Country_name |-> r.country,
        Year_formed |-> yf, Year_disbanded |-> yd,
        Ended |-> IF IsNone(r.ended) THEN FALSE ELSE Val(r.ended),
        Lifespan |-> IF IsNone(yf) \/ IsNone(yd) THEN None
                     ELSE Some(Val(yd) - Val(yf))]

\* the country filter of line 168 without the reference
ValidCountryIgnoresReference(row, countries_df) == ~IsNone(row.Country_name)

\* the country filter of line 168
ValidCountry(row, countries_df) ==
    /\ ~IsNone(row.Country_name)
    /\ \E i \in 1..Len(countries_df) :
          lower(countries_df[i].Country_name) = lower(Val(row.Country_name))

\* artist_df[...isin(valid_countries)]: the rows of a reference country
RECURSIVE FilterValidCountries(_, _)
FilterValidCountries(rows, countries_df) ==
    IF Len(rows) = 0 THEN <<>>
    ELSE LET rest == FilterValidCountries(SubSeq(rows, 1, Len(rows) - 1),
                                          countries_df)
             last == rows[Len(rows)]
         IN IF ValidCountry(last, countries_df) THEN Append(rest, last)
            ELSE rest

\* 'Fix ended status' of line 171
FixEnded(row) ==
    IF IsNone(row.Year_disbanded) THEN [row EXCEPT !.Ended = FALSE] ELSE row

\* lines 153-154: apply(extract_year) lets the ValueError of a row through
process_artist_data_raises(fetched) ==
    \E i \in 1..Len(fetched) :
        extract_year_raises(fetched[i].begin) \/ extract_year_raises(fetched[i].end)

\* process_artist_data giving None for a table that is empty after the filters
process_artist_data_NoneWhenNothingLeft(fetched) ==
    LET countries_df == get_country_data
        valid == FilterValidCountries(
                    FilterEnglish([i \in 1..Len(fetched) |-> DeriveRow(fetched[i])]),
                    countries_df)
    IN IF Len(valid) = 0 THEN None
       ELSE Some([artist_df |-> [i \in 1..Len(valid) |-> FixEnded(valid[i])],
                  countries_df |-> countries_df])

\* process_artist_data when it returns: None for an empty input, else
\* (artist_df, countries_df)
process_artist_data(fetched) ==
    IF Len(fetched) = 0 THEN None
    ELSE LET df == SortByScore(fetched)
             rows == [i \in 1..Len(df) |-> DeriveRow(df[i])]
             english == FilterEnglish(rows)
             countries_df == get_country_data
             valid == FilterValidCountries(english, countries_df)
         IN Some([artist_df |-> [i \in 1..Len(valid) |-> FixEnded(valid[i])],
                  countries_df |-> countries_df])

(* ============================ the state ================================ *)
VARIABLES
    \* ---- one run of process_data / collect_all_data (Spec) ----
    number_of_artists,  \* ArtistDataCollector.number_of_artists
    now,                \* datetime.now(), in ticks
    token,              \* SpotifyAPI.token
    token_expiry,       \* SpotifyAPI.token_expiry
    pc,                 \* where the run is
    offset,             \* fetch_artists: the loop variable
    fetched_artists,    \* fetch_artists: the accumulated records
    artist_df,          \* the table (a sequence of rows)
    idx,                \* enrich_with_spotify: the row being looked up
    tok,                \* search_artist: its local `token`
    exc,                \* the exception that left collect_all_data, or None
    result,             \* what collect_all_data returned: "none", "table", ...
    exportWritten,      \* artist_df.to_csv(filename) has written the file
    outcome,            \* process_data: "pending", "nothing_found", "report", "error"
    state,              \* user_data[user_id]["state"] of the run's session
    \* ---- what the environment saw (history) ----
    requested,          \* the offsets of the page requests issued, in order
    responses,          \* the page responses received, in order
    lk,                 \* the current lookup: validity at the check, requests made
    sent,               \* the last streaming-search request sent, or None
    authFailed,         \* a token request was answered with a non-success status
    started,            \* the phases started, in order
    finished,           \* the phases finished, in order
    \* ---- the front-end's event loop (SpecBot) ----
    user_data,          \* bot.user_data: user id -> session, None when absent
    handler,            \* the update handler suspended at an await, or None
    procs,              \* the process_data tasks, one slot each
    ready,              \* the send_progress tasks created and not yet started
    sending,            \* per user, the send_progress tasks awaiting reply_text
    \* ---- the report builder (SpecReport) ----
    countries_df,       \* ArtistVisualizer.countries_df
    summary,            \* what create_summary_text computed, or None
    chart               \* what plot_artists_per_million drew, or None

pvars == <<number_of_artists, now, token, token_expiry, pc, offset,
           fetched_artists, artist_df, idx, tok, exc, result, exportWritten,
           outcome, state, requested, responses, lk, sent, authFailed,
           started, finished>>

bvars == <<user_data, handler, procs, ready, sending>>

rvars == <<countries_df, summary, chart>>

vars == <<pvars, bvars, rvars>>

PhaseOrder == <<"fetch", "normalize", "enrich", "persist", "report">>

\* the lookup under way, as the environment saw it:
\*   checked      get_token made its check
\*   valid        at the check a token was cached and its expiry was in the future
\*   afterExpiry  at the check a token was cached and its expiry had passed
\*   old          the token cached at the check
\*   auth         the token requests posted
\*   searched     the search request was sent
\*   failed       the search failed: a network error, a non-success status, a
\*                malformed body, no match, or a match with a key missing
\*   done         search_artist returned and the row was handled
NoLookup == [checked |-> FALSE, valid |-> FALSE, afterExpiry |-> FALSE,
             old |-> None, auth |-> 0, searched |-> FALSE, failed |-> FALSE,
             done |-> FALSE]

\* the session of the run is in "collecting" when process_data starts
\* (handle_message, lines 129-142)
InitWith(counts) ==
    /\ number_of_artists \in counts
    /\ now = 0
    /\ token = None
    /\ token_expiry = None
    /\ pc = "collect_all_data"
    /\ offset = FirstOffset
    /\ fetched_artists = <<>>
    /\ artist_df = <<>>
    /\ idx = 0
    /\ tok = None
    /\ exc = None
    /\ result = "none"
    /\ exportWritten = FALSE
    /\ outcome = "pending"
    /\ state = "collecting"
    /\ requested = <<>>
    /\ responses = <<>>
    /\ lk = NoLookup
    /\ sent = None
    /\ authFailed = FALSE
    /\ started = <<>>
    /\ finished = <<>>

Users == DOMAIN user_data
Slots == DOMAIN procs
FreeSlot == [user |-> 0, pc |-> "free", raised |-> FALSE]

\* no ArtistVisualizer yet
NoVisualizer ==
    /\ countries_df = <<>>
    /\ summary = None
    /\ chart = None

\* user_data = {} (line 25), no task, no handler
InitBotState ==
    /\ user_data = [u \in 1..NumUsers |-> None]
    /\ handler = None
    /\ procs = [k \in 1..MaxTasks |-> FreeSlot]
    /\ ready = <<>>
    /\ sending = [u \in 1..NumUsers |-> 0]

Init == InitBotState /\ NoVisualizer /\ InitWith({PageSize * k : k \in 1..MaxRunPages})

\* an exception leaves collect_all_data
Raise(e) ==
    /\ pc' = "raised"
    /\ exc' = Some(e)

(* ---------------------------- the clock -------------------------------- *)
\* Only get_token reads the clock (lines 23 and 42), and a search request is
\* sent some time after it returned: the clock is let advance before each
\* call of get_token and between its return and the GET of line 61.
ClockRead == {"get_token", "search_send"}

Tick ==
    /\ pc \in ClockRead
    /\ now < MaxTime
    /\ now' = now + 1
    /\ UNCHANGED <<number_of_artists, token, token_expiry, pc, offset,
                   fetched_artists, artist_df, idx, tok, exc, result,
                   exportWritten, outcome, state, requested, responses, lk,
                   sent, authFailed, started, finished,
                   bvars, rvars>>

(* --------------------------- fetch_artists ----------------------------- *)
\* collect_all_data calls fetch_artists (line 269)
CollectStart ==
    /\ pc = "collect_all_data"
    /\ pc' = "fetch_loop"
    /\ offset' = FirstOffset
    /\ fetched_artists' = <<>>
    /\ started' = Append(started, "fetch")
    /\ UNCHANGED <<number_of_artists, now, token, token_expiry, artist_df, idx,
                   tok, exc, result, exportWritten, outcome, state, requested,
                   responses, lk, sent, authFailed, finished,
                   bvars, rvars>>

\* for offset in range(2, number_of_artists + 2, 100): requests.get(url)
FetchRequest ==
    /\ pc = "fetch_loop"
    /\ offset < number_of_artists + FirstOffset
    /\ requested' = Append(requested, offset)
    /\ pc' = "fetch_wait"
    /\ UNCHANGED <<number_of_artists, now, token, token_expiry, offset,
                   fetched_artists, artist_df, idx, tok, exc, result,
                   exportWritten, outcome, state, responses, lk, sent,
                   authFailed, started, finished,
                   bvars, rvars>>

\* the bodies a page response may carry
EmptyBody == [kind |-> "empty", artists |-> <<>>]
GarbageBody == [kind |-> "garbage", artists |-> <<>>]
JsonBody(artists) == [kind |-> "json", artists |-> artists]

\* what the catalog may answer to a page request
PageResponses(base) ==
    {[kind |-> "neterr", status_code |-> 0, content |-> EmptyBody]}
    \cup {[kind |-> "http", status_code |-> c, content |-> EmptyBody] :
            c \in StatusCodes}
    \cup {[kind |-> "http", status_code |-> HTTP_OK, content |-> GarbageBody]}
    \cup {[kind |-> "http", status_code |-> HTTP_OK,
           content |-> JsonBody(WithIds(shapes, base))] :
            shapes \in SeqsUpTo(RecordShapes, MaxRecords - base)}

\* the loop leaves on `break` or when the range is exhausted (line 122-123)
FetchReturn ==
    /\ pc' = "fetch_done"
    /\ finished' = Append(finished, "fetch")

\* `break` (line 117) kept paging instead
FetchBreakKeepsPaging(response) ==
    /\ offset' = offset + PageSize
    /\ pc' = "fetch_loop"
    /\ UNCHANGED <<fetched_artists, exc, finished>>

\* lines 115-117: no content or a bad status ends the paging
FetchBreak(response) ==
    /\ FetchReturn
    /\ UNCHANGED <<offset, fetched_artists, exc>>

\* the try of lines 108-112 without its except clause
FetchParsedNoExcept(response) ==
    IF response.content.kind = "json"
    THEN /\ fetched_artists' = fetched_artists \o response.content.artists
         /\ offset' = offset + PageSize
         /\ pc' = "fetch_loop"
         /\ UNCHANGED <<exc, finished>>
    ELSE /\ Raise("ValueError")
         /\ UNCHANGED <<offset, fetched_artists, finished>>

\* lines 108-114 and 120: the body is parsed and its artists are added; a
\* body that is not JSON adds nothing; the loop goes on
FetchParsed(response) ==
    /\ fetched_artists' =
          IF response.content.kind = "json"
          THEN fetched_artists \o response.content.artists
          ELSE fetched_artists
    /\ offset' = offset + PageSize
    /\ pc' = "fetch_loop"
    /\ UNCHANGED <<exc, finished>>

\* the body of the loop once the response is there (lines 105-120)
FetchResponse(response) ==
    /\ pc = "fetch_wait"
    /\ responses' = Append(responses, response)
    /\ IF response.kind = "neterr"
       THEN /\ Raise("RequestException")
            /\ UNCHANGED <<offset, fetched_artists, finished>>
       ELSE IF response.status_code = HTTP_OK /\ response.content.kind # "empty"
       THEN FetchParsed(response)
       ELSE FetchBreak(response)
    /\ UNCHANGED <<number_of_artists, now, token, token_expiry, artist_df, idx,
                   tok, result, exportWritten, outcome, state, requested, lk,
                   sent, authFailed, started,
                   bvars, rvars>>

\* the range is exhausted
FetchExhausted ==
    /\ pc = "fetch_loop"
    /\ offset >= number_of_artists + FirstOffset
    /\ FetchReturn
    /\ UNCHANGED <<number_of_artists, now, token, token_expiry, offset,
                   fetched_artists, artist_df, idx, tok, exc, result,
                   exportWritten, outcome, state, requested, responses, lk,
                   sent, authFailed, started,
                   bvars, rvars>>


(* ------------------- collect_all_data: normalisation ------------------- *)
\* artist_df, countries_df = self.process_artist_data(fetched_artists):
\* unpacking None raises TypeError; a pair unpacks
Unpacks(r) == ~IsNone(r)

Normalize ==
    /\ pc = "fetch_done"
    /\ started' = Append(started, "normalize")
    /\ LET r == process_artist_data(fetched_artists)
       IN IF process_artist_data_raises(fetched_artists)
          THEN /\ Raise("ValueError")
               /\ finished' = Append(finished, "normalize")
               /\ UNCHANGED artist_df
          ELSE IF Unpacks(r)
          THEN /\ artist_df' = Val(r).artist_df
               /\ pc' = "enrich_with_spotify"
               /\ finished' = Append(finished, "normalize")
               /\ UNCHANGED exc
          ELSE /\ Raise("TypeError")
               /\ finished' = Append(finished, "normalize")
               /\ UNCHANGED artist_df
    /\ UNCHANGED <<number_of_artists, now, token, token_expiry, offset,
                   fetched_artists, idx, tok, result, exportWritten, outcome,
                   state, requested, responses, lk, sent, authFailed,
                   bvars, rvars>>

(* ------------------------- enrich_with_spotify ------------------------- *)
\* lines 191-194: the four enrichment columns, all None
WithSpotifyColumns(row) ==
    [id |-> row.id, name |-> row.name, Country_name |-> row.Country_name,
     Year_formed |-> row.Year_formed, Year_disbanded |-> row.Year_disbanded,
     Ended |-> row.Ended, Lifespan |-> row.Lifespan,
     spotify_followers |-> None, spotify_url |-> None,
     spotify_popularity |-> None, spotify_image |-> None]

EnrichStart ==
    /\ pc = "enrich_with_spotify"
    /\ started' = Append(started, "enrich")
    /\ artist_df' = [i \in 1..Len(artist_df) |-> WithSpotifyColumns(artist_df[i])]
    /\ idx' = 1
    /\ pc' = "enrich_next"
    /\ UNCHANGED <<number_of_artists, now, token, token_expiry, offset,
                   fetched_artists, tok, exc, result, exportWritten, outcome,
                   state, requested, responses, lk, sent, authFailed, finished,
                   bvars, rvars>>

\* for idx, row in artist_df.iterrows(): self.spotify.search_artist(name)
EnrichNext ==
    /\ pc = "enrich_next"
    /\ idx <= Len(artist_df)
    /\ pc' = "get_token"
    /\ lk' = NoLookup
    /\ UNCHANGED <<number_of_artists, now, token, token_expiry, offset,
                   fetched_artists, artist_df, idx, tok, exc, result,
                   exportWritten, outcome, state, requested, responses, sent,
                   authFailed, started, finished,
                   bvars, rvars>>

\* the loop is over: lines 218-223
EnrichReturn ==
    /\ pc = "enrich_next"
    /\ idx > Len(artist_df)
    /\ pc' = "persist"
    /\ finished' = Append(finished, "enrich")
    /\ UNCHANGED <<number_of_artists, now, token, token_expiry, offset,
                   fetched_artists, artist_df, idx, tok, exc, result,
                   exportWritten, outcome, state, requested, responses, lk,
                   sent, authFailed, started,
                   bvars, rvars>>

(* ------------------------------ SpotifyAPI ----------------------------- *)
\* line 23 without its comparison of the expiry
TokenValidIgnoresExpiry(t, expiry, time) == ~IsNone(t)

\* get_token, line 23: self.token and self.token_expiry > datetime.now()
TokenValid(t, expiry, time) == ~IsNone(t) /\ Val(expiry) > time

\* get_token up to the return of the cached token or the POST (lines 23-38)
GetToken ==
    /\ pc = "get_token"
    /\ LET seen == [lk EXCEPT
                      !.checked = TRUE,
                      !.valid = ~IsNone(token) /\ Val(token_expiry) > now,
                      !.afterExpiry = ~IsNone(token) /\ now > Val(token_expiry),
                      !.old = token]
       IN IF TokenValid(token, token_expiry, now)
          THEN /\ tok' = token
               /\ pc' = "search_send"
               /\ lk' = seen
          ELSE /\ pc' = "auth_wait"
               /\ lk' = [seen EXCEPT !.auth = lk.auth + 1]
               /\ UNCHANGED tok
    /\ UNCHANGED <<number_of_artists, now, token, token_expiry, offset,
                   fetched_artists, artist_df, idx, exc, result, exportWritten,
                   outcome, state, requested, responses, sent, authFailed,
                   started, finished,
                   bvars, rvars>>

\* what the token endpoint may answer
AuthResponses ==
    {[kind |-> "neterr", status_code |-> 0, expires_in |-> 0]}
    \cup {[kind |-> "http", status_code |-> c, expires_in |-> e] :
            c \in StatusCodes, e \in 1..MaxExpiresIn}

\* the token the endpoint hands out next
FreshToken(t) == IF IsNone(t) THEN Some(1) ELSE Some(Val(t) + 1)

\* lines 44-45 returning None instead of raising
TokenRequestFailedSilently ==
    /\ tok' = None
    /\ pc' = "search_send"
    /\ authFailed' = TRUE
    /\ UNCHANGED <<token, token_expiry, exc>>

\* get_token, lines 44-45: raise Exception("Failed to get token: ...")
TokenRequestFailed ==
    /\ Raise("Failed to get token")
    /\ authFailed' = TRUE
    /\ UNCHANGED <<token, token_expiry, tok>>

\* get_token, lines 39-45
AuthResponse(r) ==
    /\ pc = "auth_wait"
    /\ IF r.kind = "neterr"
       THEN /\ Raise("RequestException")
            /\ UNCHANGED <<token, token_expiry, tok, authFailed>>
       ELSE IF r.status_code = HTTP_OK
       THEN /\ token' = FreshToken(token)
            /\ token_expiry' = Some(now + r.expires_in)
            /\ tok' = token'
            /\ pc' = "search_send"
            /\ UNCHANGED <<exc, authFailed>>
       ELSE TokenRequestFailed
    /\ UNCHANGED <<number_of_artists, now, offset, fetched_artists, artist_df,
                   idx, result, exportWritten, outcome, state, requested,
                   responses, lk, sent, started, finished,
                   bvars, rvars>>

\* search_artist, line 61: the GET leaves with the bearer token
SearchSend ==
    /\ pc = "search_send"
    /\ sent' = Some([token |-> tok, expiry |-> token_expiry, at |-> now,
                     cached |-> token = tok])
    /\ lk' = [lk EXCEPT !.searched = TRUE]
    /\ pc' = "search_wait"
    /\ UNCHANGED <<number_of_artists, now, token, token_expiry, offset,
                   fetched_artists, artist_df, idx, tok, exc, result,
                   exportWritten, outcome, state, requested, responses,
                   authFailed, started, finished,
                   bvars, rvars>>

\* the top-ranked matches the search may return; None stands for a missing key
MatchFull ==
    [followers |-> Some(1000), url |-> Some("url"), popularity |-> Some(50),
     images |-> <<"img">>]
MatchNoImages == [MatchFull EXCEPT !.images = <<>>]
MatchNoFollowers == [MatchFull EXCEPT !.followers = None]
MatchNoPopularity == [MatchFull EXCEPT !.popularity = None]
Matches == {MatchFull, MatchNoImages, MatchNoFollowers, MatchNoPopularity}

\* what the search endpoint may answer
SearchResponses ==
    {[kind |-> "neterr", status_code |-> 0, json |-> FALSE, items |-> <<>>]}
    \cup {[kind |-> "http", status_code |-> c, json |-> FALSE, items |-> <<>>] :
            c \in StatusCodes}
    \cup {[kind |-> "http", status_code |-> HTTP_OK, json |-> TRUE, items |-> <<>>]}
    \cup {[kind |-> "http", status_code |-> HTTP_OK, json |-> TRUE, items |-> <<m>>] :
            m \in Matches}

\* search_artist, lines 62-68: "raise_..." or the value returned
SearchResult(r) ==
    IF r.kind = "neterr" THEN [raises |-> Some("RequestException"), value |-> None]
    ELSE IF r.status_code = HTTP_OK
    THEN IF ~r.json THEN [raises |-> Some("ValueError"), value |-> None]
         ELSE IF Len(r.items) > 0 THEN [raises |-> None, value |-> Some(r.items[1])]
         ELSE [raises |-> None, value |-> None]
    ELSE [raises |-> None, value |-> None]

\* enrich_with_spotify, lines 202-209, on one row: the row afterwards and the
\* exception, if any, that a missing key raised on the way
ApplyMatch(row, m) ==
    IF IsNone(m.followers) THEN [row |-> row, raises |-> Some("KeyError")]
    ELSE LET r1 == [row EXCEPT !.spotify_followers = m.followers]
         IN IF IsNone(m.url) THEN [row |-> r1, raises |-> Some("KeyError")]
            ELSE LET r2 == [r1 EXCEPT !.spotify_url = m.url]
                 IN IF IsNone(m.popularity)
                    THEN [row |-> r2, raises |-> Some("KeyError")]
                    ELSE LET r3 == [r2 EXCEPT !.spotify_popularity = m.popularity]
                         IN [row |-> IF Len(m.images) > 0
                                     THEN [r3 EXCEPT !.spotify_image = Some(m.images[1])]
                                     ELSE r3,
                             raises |-> None]

\* the lookups the enrichment is to survive
FailedLookup(r) ==
    \/ r.kind = "neterr"
    \/ r.status_code # HTTP_OK
    \/ ~r.json
    \/ Len(r.items) = 0
    \/ IsNone(r.items[1].followers)
    \/ IsNone(r.items[1].url)
    \/ IsNone(r.items[1].popularity)

\* the answer to the search arrives: the rest of search_artist and of the loop body
SearchResponse(r) ==
    /\ pc = "search_wait"
    /\ LET res == SearchResult(r)
       IN IF ~IsNone(res.raises)
          THEN /\ Raise(Val(res.raises))
               /\ UNCHANGED <<artist_df, idx>>
          ELSE IF IsNone(res.value)
          THEN /\ idx' = idx + 1
               /\ pc' = "enrich_next"
               /\ UNCHANGED <<artist_df, exc>>
          ELSE LET a == ApplyMatch(artist_df[idx], Val(res.value))
               IN /\ artist_df' = [artist_df EXCEPT ![idx] = a.row]
                  /\ IF IsNone(a.raises)
                     THEN /\ idx' = idx + 1
                          /\ pc' = "enrich_next"
                          /\ UNCHANGED exc
                     ELSE /\ Raise(Val(a.raises))
                          /\ UNCHANGED idx
    /\ lk' = [lk EXCEPT !.failed = FailedLookup(r), !.done = (pc' = "enrich_next")]
    /\ UNCHANGED <<number_of_artists, now, token, token_expiry, offset,
                   fetched_artists, tok, result, exportWritten, outcome, state,
                   requested, responses, sent, authFailed, started, finished,
                   bvars, rvars>>

(* ---------------------- collect_all_data: the export ------------------- *)
\* lines 280-285 with a failed write swallowed
PersistSwallowsError(ok) ==
    /\ pc = "persist"
    /\ started' = Append(started, "persist")
    /\ exportWritten' = ok
    /\ result' = "table"
    /\ pc' = "returned"
    /\ finished' = Append(finished, "persist")
    /\ UNCHANGED <<number_of_artists, now, token, token_expiry, offset,
                   fetched_artists, artist_df, idx, tok, exc, outcome, state,
                   requested, responses, lk, sent, authFailed,
                   bvars, rvars>>

\* lines 280-285: to_csv writes the file, or raises
Persist(ok) ==
    /\ pc = "persist"
    /\ started' = Append(started, "persist")
    /\ IF ok
       THEN /\ exportWritten' = TRUE
            /\ result' = "table"
            /\ pc' = "returned"
            /\ finished' = Append(finished, "persist")
            /\ UNCHANGED exc
       ELSE /\ Raise("OSError")
            /\ UNCHANGED <<exportWritten, result, finished>>
    /\ UNCHANGED <<number_of_artists, now, token, token_expiry, offset,
                   fetched_artists, artist_df, idx, tok, outcome, state,
                   requested, responses, lk, sent, authFailed,
                   bvars, rvars>>

(* ------------------- process_data around the pipeline ------------------ *)
\* lines 206-214: nothing found; else the report starts (line 217)
ProcessDataResult ==
    /\ pc = "returned"
    /\ IF result = "none_none" \/ Len(artist_df) = 0
       THEN /\ outcome' = "nothing_found"
            /\ state' = "idle"
            /\ pc' = "done"
            /\ UNCHANGED started
       ELSE /\ pc' = "report"
            /\ started' = Append(started, "report")
            /\ UNCHANGED <<outcome, state>>
    /\ UNCHANGED <<number_of_artists, now, token, token_expiry, offset,
                   fetched_artists, artist_df, idx, tok, exc, result,
                   exportWritten, requested, responses, lk, sent, authFailed,
                   finished,
                   bvars, rvars>>

\* lines 217-231: summary, top artists, menu; any of them may raise
Report(ok) ==
    /\ pc = "report"
    /\ IF ok
       THEN /\ outcome' = "report"
            /\ state' = "showing_results"
            /\ finished' = Append(finished, "report")
       ELSE /\ outcome' = "error"
            /\ state' = "idle"
            /\ UNCHANGED finished
    /\ pc' = "done"
    /\ UNCHANGED <<number_of_artists, now, token, token_expiry, offset,
                   fetched_artists, artist_df, idx, tok, exc, result,
                   exportWritten, requested, responses, lk, sent, authFailed,
                   started,
                   bvars, rvars>>

\* lines 233-242: the except clause
ProcessDataExcept ==
    /\ pc = "raised"
    /\ outcome' = "error"
    /\ state' = "idle"
    /\ pc' = "done"
    /\ UNCHANGED <<number_of_artists, now, token, token_expiry, offset,
                   fetched_artists, artist_df, idx, tok, exc, result,
                   exportWritten, requested, responses, lk, sent, authFailed,
                   started, finished,
                   bvars, rvars>>

Next ==
    \/ Tick
    \/ CollectStart
    \/ FetchRequest
    \/ \E r \in PageResponses(Len(fetched_artists)) : FetchResponse(r)
    \/ FetchExhausted
    \/ Normalize
    \/ EnrichStart
    \/ EnrichNext
    \/ EnrichReturn
    \/ GetToken
    \/ \E r \in AuthResponses : AuthResponse(r)
    \/ SearchSend
    \/ \E r \in SearchResponses : SearchResponse(r)
    \/ \E ok \in BOOLEAN : Persist(ok)
    \/ ProcessDataResult
    \/ \E ok \in BOOLEAN : Report(ok)
    \/ ProcessDataExcept

Spec == Init /\ [][Next]_vars

(* ------------------------- a run that goes on -------------------------- *)
\* The timeout argument of the three requests calls of a run, by the place
\* where the run waits for the answer: requests.get(url) (line 105),
\* requests.post(url, headers=headers, data=data) (line 38) and
\* requests.get(url, headers=headers, params=params) (line 61) pass none, and
\* requests then waits for as long as the service keeps silent.
TimeoutOf(wait) ==
    CASE wait = "fetch_wait" -> None
      [] wait = "auth_wait" -> None
      [] wait = "search_wait" -> None

\* the wait for the answer ends of itself: with the answer, or with
\* requests.exceptions.Timeout, which is one of the network errors
BoundedWait(wait) == ~IsNone(TimeoutOf(wait))

\* what the interpreter does without waiting for anyone; process_artist_data
\* is one more such step, see NormalizeGoesOn
OwnStep ==
    \/ CollectStart
    \/ FetchRequest
    \/ FetchExhausted
    \/ EnrichStart
    \/ EnrichNext
    \/ EnrichReturn
    \/ GetToken
    \/ SearchSend
    \/ \E ok \in BOOLEAN : Persist(ok)
    \/ ProcessDataResult
    \/ \E ok \in BOOLEAN : Report(ok)
    \/ ProcessDataExcept

\* the end of a wait that is bounded
WaitEnds ==
    \/ BoundedWait("fetch_wait")
          /\ \E r \in PageResponses(Len(fetched_artists)) : FetchResponse(r)
    \/ BoundedWait("auth_wait") /\ \E r \in AuthResponses : AuthResponse(r)
    \/ BoundedWait("search_wait") /\ \E r \in SearchResponses : SearchResponse(r)

\* Normalize can be taken exactly where pc = "fetch_done", and it leaves
\* that place: that the interpreter goes on with it is WF_vars(Normalize),
\* written by what it amounts to.
NormalizeGoesOn == []<>(pc # "fetch_done")

\* The interpreter goes on with what it can do; a service answers or not, as
\* it likes, and a wait ends of itself only where it is bounded.
SpecLive ==
    /\ Spec
    /\ WF_vars(OwnStep)
    /\ NormalizeGoesOn
    /\ WF_vars(WaitEnds)

(* fetch_artists alone, over every answer of the catalog to up to MaxPages pages *)
InitFetch == InitBotState /\ NoVisualizer /\ InitWith({PageSize * k : k \in 1..MaxPages})

NextFetch ==
    \/ CollectStart
    \/ FetchRequest
    \/ \E r \in PageResponses(Len(fetched_artists)) : FetchResponse(r)
    \/ FetchExhausted

SpecFetch == InitFetch /\ [][NextFetch]_vars

(* ======================================================================= *)
(*              process_artist_data on its own (SpecNorm)                  *)
(* ======================================================================= *)
\* raw records one call may be given
MaxNormRows == 2

\* date strings: "1982", "1972-05", "199", "19(superscript 2)0", "abcd", ""
Date1982 == <<49, 57, 56, 50>>
Date1972May == <<49, 57, 55, 50, 45, 48, 53>>
Date199 == <<49, 57, 57>>
Date19Sup0 == <<49, 57, 178, 48>>
DateAbcd == <<97, 98, 99, 100>>
DateEmpty == <<>>

\* life-span.begin / life-span.end as the catalog may give them
NormDates ==
    {None, Some(Date1982), Some(Date1972May), Some(Date199), Some(Date19Sup0),
     Some(DateAbcd), Some(DateEmpty)}

\* records that vary in their dates and their ended flag
DateRecords ==
    {[name |-> NameABBA, score |-> 100, country |-> Some("Sweden"),
      begin |-> b, end |-> e, ended |-> f] :
        b \in {None, Some(Date1972May)}, e \in NormDates,
        f \in {None, Some(TRUE), Some(FALSE)}}

\* records that vary in what the filters look at
FilterRecords ==
    {[name |-> n, score |-> 90, country |-> c,
      begin |-> Some(Date1972May), end |-> None, ended |-> None] :
        n \in {NameKiss, NameBjork},
        c \in {None, Some("Sweden"), Some("GERMANY"), Some("Atlantis")}}

NormRecords == DateRecords \cup FilterRecords

\* fetch_artists has returned some sequence of records (line 269)
InitNorm ==
    /\ InitBotState
    /\ NoVisualizer
    /\ number_of_artists = PageSize
    /\ now = 0
    /\ token = None
    /\ token_expiry = None
    /\ pc = "process_artist_data"
    /\ offset = FirstOffset
    /\ \E shapes \in SeqsUpTo(NormRecords, MaxNormRows) :
          fetched_artists = WithIds(shapes, 0)
    /\ artist_df = <<>>
    /\ idx = 0
    /\ tok = None
    /\ exc = None
    /\ result = "none"
    /\ exportWritten = FALSE
    /\ outcome = "pending"
    /\ state = "collecting"
    /\ requested = <<>>
    /\ responses = <<>>
    /\ lk = NoLookup
    /\ sent = None
    /\ authFailed = FALSE
    /\ started = <<"fetch">>
    /\ finished = <<"fetch">>

\* one call of process_artist_data(fetched_artists): it raises, returns None
\* ("no_data") or returns the pair of the table and the reference ("pair")
ProcessArtistData ==
    /\ pc = "process_artist_data"
    /\ IF process_artist_data_raises(fetched_artists)
       THEN /\ Raise("ValueError")
            /\ UNCHANGED <<artist_df, result>>
       ELSE LET r == process_artist_data(fetched_artists)
            IN /\ result' = IF IsNone(r) THEN "no_data" ELSE "pair"
               /\ artist_df' = IF IsNone(r) THEN <<>> ELSE Val(r).artist_df
               /\ pc' = "returned"
               /\ UNCHANGED exc
    /\ UNCHANGED <<number_of_artists, now, token, token_expiry, offset,
                   fetched_artists, idx, tok, exportWritten, outcome, state,
                   requested, responses, lk, sent, authFailed, started,
                   finished, bvars, rvars>>

NextNorm == ProcessArtistData

SpecNorm == InitNorm /\ [][NextNorm]_vars

(* ======================================================================= *)
(*           visualizer.py: the report builder (SpecReport)                *)
(* ======================================================================= *)
\* rows of the table one report is built from
MaxReportRows == 5

\* ArtistsCount >= 3 (lines 52 and 223)
MinArtists == 3
\* head(3) of the summary (line 55), head(10) of the chart (line 226)
TopSummary == 3
TopChart == 10
\* * 1_000_000 (lines 47 and 215)
Million == 1000000
\* 100 * ... / total_artists (lines 25, 26, 67)
Hundred == 100

\* pd.to_numeric(..., errors='coerce'): a number, or NaN for anything else
to_numeric(p) == IF p.kind = "int" THEN Some(p.value) ELSE None

\* a / b of two numbers as pandas computes it: no exception, a zero divisor
\* gives inf (nan for 0 / 0)
Div(a, b) ==
    IF b = 0
    THEN [kind |-> IF a = 0 THEN "nan" ELSE "inf", num |-> 0, den |-> 1]
    ELSE [kind |-> "num", num |-> a, den |-> b]
NaN == [kind |-> "nan", num |-> 0, den |-> 1]
Zero == [kind |-> "num", num |-> 0, den |-> 1]

\* 100 * part / total_artists if total_artists else 0 (lines 25, 26, 67)
Percent(part, total) == IF total # 0 THEN Div(Hundred * part, total) ELSE Zero

\* the rows of df that satisfy Test, counted

\* the country names the runs below use, in the sorted order groupby gives
CountryOrder == <<"GERMANY", "Germany", "Sweden">>

\* merge(..., on='Country_name', how='left') with the reference, then
\* to_numeric: the population of the entry of exactly that name, else NaN
population_of(c, ref) ==
    IF \E i \in 1..Len(ref) : ref[i].Country_name = c
    THEN to_numeric(ref[CHOOSE i \in 1..Len(ref) : ref[i].Country_name = c].population)
    ELSE None

\* (ArtistsCount / population) * 1_000_000, NaN when the population is
ArtistsPerMillion(count, pop) ==
    IF IsNone(pop) THEN NaN ELSE Div(count * Million, Val(pop))

\* groupby('Country_name')['name'].count() and the two columns added to it
\* (lines 36-49, 203-217): one entry per country of the table
artist_per_country(df, ref) ==
    LET present(c) == \E i \in 1..Len(df) : df[i].Country_name = Some(c)
        entry(c) ==
            LET cnt == Cardinality({i \in 1..Len(df) : df[i].Country_name = Some(c)})
            IN [Country_name |-> c, ArtistsCount |-> cnt,
                ArtistsPerMillion |-> ArtistsPerMillion(cnt, population_of(c, ref))]
        all == [k \in 1..Len(CountryOrder) |-> entry(CountryOrder[k])]
        kept(e) == present(e.Country_name)
    IN SelectSeq(all, kept)

\* dropna(subset=['ArtistsPerMillion']) keeps what is not NaN
NotNaN(e) == e.ArtistsPerMillion.kind # "nan"
\* ArtistsCount >= 3 without its threshold
EnoughArtistsAnyCount(e) == TRUE
\* ArtistsCount >= 3
EnoughArtists(e) == e.ArtistsCount >= MinArtists

\* a > b for two values that are not NaN
RateGreater(a, b) ==
    CASE a.kind = "inf" -> b.kind # "inf"
      [] b.kind = "inf" -> FALSE
      [] OTHER -> a.num * b.den > b.num * a.den

\* sort_values('ArtistsPerMillion', ascending=False): insertion into a
\* descending list, equal rates keeping their order
RECURSIVE InsertByRate(_, _)
InsertByRate(sorted, e) ==
    IF Len(sorted) = 0 THEN <<e>>
    ELSE IF RateGreater(e.ArtistsPerMillion, sorted[Len(sorted)].ArtistsPerMillion)
    THEN Append(InsertByRate(SubSeq(sorted, 1, Len(sorted) - 1), e),
                sorted[Len(sorted)])
    ELSE Append(sorted, e)

RECURSIVE SortByRate(_)
SortByRate(es) ==
    IF Len(es) = 0 THEN <<>>
    ELSE InsertByRate(SortByRate(SubSeq(es, 1, Len(es) - 1)), es[Len(es)])

\* head(n)
head(es, n) == SubSeq(es, 1, IF Len(es) < n THEN Len(es) ELSE n)

\* lines 52-55: the per-million ranking of the summary
top_per_million(df, ref) ==
    LET kept(e) == EnoughArtists(e) /\ NotNaN(e)
    IN head(SortByRate(SelectSeq(artist_per_country(df, ref), kept)), TopSummary)

\* lines 220-226: the per-million ranking of the chart
top_countries(df, ref) ==
    LET kept(e) == NotNaN(e) /\ EnoughArtists(e)
    IN head(SortByRate(SelectSeq(artist_per_country(df, ref), kept)), TopChart)

(* ---------------------- the peak formation period ---------------------- *)
\* pd.cut(years, bins=5)
Bins == 5
\* if len(years) >= 2 (line 73)
MinYears == 2
\* pd.cut widens a range by 0.1 %: edges are kept in thousandths
Thousand == 1000

\* self.artist_df['Year_formed'].dropna()
RECURSIVE dropna(_)
dropna(col) ==
    IF Len(col) = 0 THEN <<>>
    ELSE LET rest == dropna(SubSeq(col, 1, Len(col) - 1))
         IN IF IsNone(col[Len(col)]) THEN rest ELSE Append(rest, Val(col[Len(col)]))

Year_formed(df) == dropna([i \in 1..Len(df) |-> df[i].Year_formed])

Min(ys) == CHOOSE y \in {ys[i] : i \in 1..Len(ys)} : \A i \in 1..Len(ys) : y <= ys[i]
Max(ys) == CHOOSE y \in {ys[i] : i \in 1..Len(ys)} : \A i \in 1..Len(ys) : y >= ys[i]
Abs(n) == IF n < 0 THEN 0 - n ELSE n
\* the least integer that is not below a / b, for a >= 0 and b > 0
CeilDiv(a, b) == (a + b - 1) \div b

\* the edges pd.cut computes, in thousandths: linspace(mn, mx, 6) with the
\* first edge lowered by 0.1 % of the range; when all years are equal the
\* range is first widened by 0.1 % of the year on both sides
CutLow(mn, mx) ==
    IF mn = mx THEN Thousand * mn - (IF mn = 0 THEN 1 ELSE Abs(mn)) ELSE Thousand * mn
CutHigh(mn, mx) ==
    IF mn = mx THEN Thousand * mx + (IF mx = 0 THEN 1 ELSE Abs(mx)) ELSE Thousand * mx
\* edge k (0..5), times Bins
Edge(k, mn, mx) ==
    LET lo == CutLow(mn, mx)
        hi == CutHigh(mn, mx)
    IN IF k = 0 /\ mn # mx THEN Bins * lo - (mx - mn) * Bins
       ELSE Bins * lo + k * (hi - lo)

\* the interval (edge k-1, edge k] a year falls in, as cut assigns it
BucketOf(y, mn, mx) ==
    LET lo == CutLow(mn, mx)
        hi == CutHigh(mn, mx)
    IN IF Thousand * y = lo THEN 1
       ELSE CeilDiv(Bins * (Thousand * y - lo), hi - lo)

\* bins.value_counts().sort_index(): the count of every interval, in order
period_counts(ys) ==
    [k \in 1..Bins |->
        Cardinality({i \in 1..Len(ys) : BucketOf(ys[i], Min(ys), Max(ys)) = k})]

\* idxmax() taking the last position that holds the greatest value
RECURSIVE idxmaxLast(_, _)
idxmaxLast(counts, n) ==
    IF n = 1 THEN 1
    ELSE LET best == idxmaxLast(counts, n - 1)
         IN IF counts[n] >= counts[best] THEN n ELSE best

\* idxmax(): the first position that holds the greatest value
RECURSIVE idxmax(_, _)
idxmax(counts, n) ==
    IF n = 1 THEN 1
    ELSE LET best == idxmax(counts, n - 1)
         IN IF counts[n] > counts[best] THEN n ELSE best

\* lines 72-79: the peak period, None standing for "Insufficient data"; the
\* two edges are what the string of line 77 rounds to whole years
peak_period(df) ==
    LET ys == Year_formed(df)
    IN IF Len(ys) >= MinYears
       THEN LET k == idxmax(period_counts(ys), Bins)
            IN Some([bucket |-> k,
                     left |-> Edge(k - 1, Min(ys), Max(ys)),
                     right |-> Edge(k, Min(ys), Max(ys))])
       ELSE None

(* --------------------------- the two reports --------------------------- *)
\* create_summary_text, lines 22-79: the figures the text is made of
create_summary_text(df, ref) ==
    LET total_artists == Len(df)
        active_artists == Cardinality({i \in 1..Len(df) : ~df[i].Ended})
        disbanded_artists == Cardinality({i \in 1..Len(df) : df[i].Ended})
        spotify_profiles ==
            Cardinality({i \in 1..Len(df) : ~IsNone(df[i].spotify_followers)})
    IN [total_artists |-> total_artists,
        active_percent |-> Percent(active_artists, total_artists),
        disbanded_percent |-> Percent(disbanded_artists, total_artists),
        spotify_percent |-> Percent(spotify_profiles, total_artists),
        top_per_million |-> top_per_million(df, ref),
        peak_period |-> peak_period(df)]

\* plot_artists_per_million, lines 203-229: the bars of the chart
plot_artists_per_million(df, ref) == top_countries(df, ref)

\* a row of the table given to the visualizer
ReportRow(c, ended, followers, year) ==
    [id |-> 0, name |-> NameABBA, Country_name |-> Some(c),
     Year_formed |-> year, Year_disbanded |-> None, Ended |-> ended,
     Lifespan |-> None, spotify_followers |-> followers, spotify_url |-> None,
     spotify_popularity |-> None, spotify_image |-> None]

\* rows that vary in country, status and streaming profile
CountryRows ==
    {ReportRow(c, x[1], x[2], None) :
        c \in {"Germany", "Sweden", "GERMANY"},
        x \in {<<FALSE, None>>, <<TRUE, Some(5)>>}}

\* rows that vary in the year of formation
YearRows ==
    {ReportRow("Sweden", FALSE, None, y) :
        y \in {None, Some(1990), Some(1991), Some(1995), Some(2000), Some(2010)}}

\* the reference with every kind of population for its first country
References ==
    {<< [Country_name |-> "Germany", population |-> p],
        [Country_name |-> "Sweden", population |-> PopInt(10)] >> :
        p \in {PopInt(80), PopInt(0), PopMissing, PopText}}

\* ArtistVisualizer(artist_df, countries_df, genre) (bot.py, line 217)
InitReport ==
    /\ InitBotState
    /\ number_of_artists = PageSize
    /\ now = 0
    /\ token = None
    /\ token_expiry = None
    /\ pc = "visualizer"
    /\ offset = FirstOffset
    /\ fetched_artists = <<>>
    /\ \/ /\ artist_df \in SeqsUpTo(CountryRows, MaxReportRows)
          /\ countries_df \in References
       \/ /\ artist_df \in SeqsUpTo(YearRows, MaxReportRows)
          /\ countries_df = get_country_data
    /\ summary = None
    /\ chart = None
    /\ idx = 0
    /\ tok = None
    /\ exc = None
    /\ result = "table"
    /\ exportWritten = TRUE
    /\ outcome = "pending"
    /\ state = "collecting"
    /\ requested = <<>>
    /\ responses = <<>>
    /\ lk = NoLookup
    /\ sent = None
    /\ authFailed = FALSE
    /\ started = <<"fetch", "normalize", "enrich", "persist">>
    /\ finished = <<"fetch", "normalize", "enrich", "persist">>

\* summary = visualizer.create_summary_text() (bot.py, line 220)
CreateSummaryText ==
    /\ pc = "visualizer"
    /\ IsNone(summary)
    /\ summary' = Some(create_summary_text(artist_df, countries_df))
    /\ UNCHANGED <<pvars, bvars, countries_df, chart>>

\* the per-million chart is asked for (bot.py, button_callback)
PlotArtistsPerMillion ==
    /\ pc = "visualizer"
    /\ IsNone(chart)
    /\ chart' = Some(plot_artists_per_million(artist_df, countries_df))
    /\ UNCHANGED <<pvars, bvars, countries_df, summary>>

NextReport == CreateSummaryText \/ PlotArtistsPerMillion

SpecReport == InitReport /\ [][NextReport]_vars

(* ======================================================================= *)
(*                      bot.py: the front-end's loop                        *)
(* ======================================================================= *)
\* Updates are handled one at a time (Application.builder() of line 472 leaves
\* concurrent updates off). The loop is asyncio's: a coroutine holds it until
\* it awaits something that is not there yet (here: an answer of Telegram);
\* the tasks made with create_task start in the order of their creation, and
\* before anything that waits for the network or for a timer is resumed.
\* When a handler returns, the handler of an update that is already queued
\* starts without the loop being released.

\* (current_time - last_activity).total_seconds() > 1800, one tick being 1800 s
SessionTimeout == 1

\* {"state": "waiting_for_genre"} (line 59); a key that is absent is None.
\* created is no key of the dictionary: it is the time at which the entry was
\* put into user_data, kept for the properties only.
NewSession ==
    [state |-> Some("waiting_for_genre"), genre |-> None, count |-> None,
     last_activity |-> None, current_phase |-> None,
     progress_message_id |-> None, visualizer |-> FALSE, created |-> None]
\* {} (line 152)
EmptySession == [NewSession EXCEPT !.state = None]

\* the entry as it is at the time it is put into user_data
CreatedNow(s) == [s EXCEPT !.created = Some(now)]

\* process_data is inside collect_all_data (line 204), which is called, not
\* awaited: no other coroutine runs until it has returned
LoopHeld == \E k \in Slots : procs[k].pc = "collecting"

\* no task made with create_task is waiting for its first run
NoneCreated ==
    /\ ~LoopHeld
    /\ Len(ready) = 0
    /\ \A k \in Slots : procs[k].pc # "created"

\* an update's handler may start: none is under way, and the loop was not
\* released since the last one returned
MayHandle == ~LoopHeld /\ IsNone(handler) /\ Len(ready) = 0

\* the handler awaits its reply, after which it does nothing more
AwaitsReply(u) == Some([kind |-> "tail", user |-> u])

InSessions(u) == ~IsNone(user_data[u])
Session(u) == Val(user_data[u])

\* what a text message may hold, as handle_message tells them apart
TextKinds == {"blank", "word", "small", "number", "big"}

\* the progress messages of a run that finds artists, in the order
\* update_progress is called (data_collector.py, lines 266, 100, 112, 122, 127,
\* 165, 178, 173, 188, 222, 283), each by its leading words
RunMessages ==
    <<"Starting data collection", "Fetching artists with tag",
      "Fetched artists from offset", "Total artists fetched",
      "Processing artist data", "Filtering for valid countries",
      "Fetching country data", "Processed data", "Enriching with Spotify data",
      "Spotify enrichment complete", "Data saved to">>

\* send_progress, lines 157-166: the phase a message sets, None when it sets
\* none. The tests are for the substrings "Fetching", "Processing", "country",
\* "Spotify" and "saved", the first that is found deciding.
PhaseOf(message) ==
    CASE message \in {"Fetching artists with tag", "Fetching country data"}
            -> Some("Fetching Artists")
      [] message = "Processing artist data" -> Some("Cleaning Data")
      [] message \in {"Enriching with Spotify data", "Spotify enrichment complete"}
            -> Some("Adding Streaming Data")
      [] message = "Data saved to" -> Some("Completing Analysis")
      [] OTHER -> None

(* ----------------------------- the clock ------------------------------- *)
BotTick ==
    /\ now < MaxTime
    /\ now' = now + 1
    /\ UNCHANGED <<number_of_artists, token, token_expiry, pc, offset,
                   fetched_artists, artist_df, idx, tok, exc, result,
                   exportWritten, outcome, state, requested, responses, lk,
                   sent, authFailed, started, finished, bvars, rvars>>

\* the pipeline's variables, which the front-end's steps leave alone
runvars == <<number_of_artists, token, token_expiry, pc, offset,
             fetched_artists, artist_df, idx, tok, exc, result, exportWritten,
             outcome, state, requested, responses, lk, sent, authFailed,
             started, finished,
             rvars>>

(* ----------------------------- handlers -------------------------------- *)
\* analyze, lines 53-57: the reply is awaited
AnalyzeStart(u) ==
    /\ MayHandle
    /\ handler' = Some([kind |-> "analyze", user |-> u])
    /\ UNCHANGED <<now, runvars, user_data, procs, ready, sending>>

\* analyze, line 59
AnalyzeFinish ==
    /\ NoneCreated
    /\ ~IsNone(handler)
    /\ Val(handler).kind = "analyze"
    /\ user_data' = [user_data EXCEPT ![Val(handler).user] =
                         Some(CreatedNow(NewSession))]
    /\ handler' = None
    /\ UNCHANGED <<now, runvars, procs, ready, sending>>

\* end, lines 63-65: the session is removed, the reply is awaited
End(u) ==
    /\ MayHandle
    /\ user_data' = [user_data EXCEPT ![u] = None]
    /\ handler' = AwaitsReply(u)
    /\ UNCHANGED <<now, runvars, procs, ready, sending>>

\* the reply a handler ended with was sent: the handler returns
HandlerReturn ==
    /\ NoneCreated
    /\ ~IsNone(handler)
    /\ Val(handler).kind = "tail"
    /\ handler' = None
    /\ UNCHANGED <<now, runvars, user_data, procs, ready, sending>>

\* The model follows a user's runs only as long as the progress messages that
\* wait for Telegram's answer, with those of the runs still to start, stay
\* within the worth of as many runs as there are slots for tasks.
RoomForProgress(u) ==
    LET waiting == Cardinality({k \in Slots : /\ procs[k].pc = "created"
                                              /\ procs[k].user = u})
    IN sending[u] + ProgressPerRun * (waiting + 1)
           <= Cardinality(Slots) * ProgressPerRun

\* handle_message, lines 72-137, up to the await of the reply
HandleMessage(u, text) ==
    /\ MayHandle
    /\ InSessions(u)
    /\ LET s == [Session(u) EXCEPT !.last_activity = Some(now)]
       IN IF IsNone(s.state)
          THEN /\ user_data' = [user_data EXCEPT ![u] = Some(s)]
               /\ handler' = AwaitsReply(u)
          ELSE IF Val(s.state) = "waiting_for_genre"
          THEN /\ user_data' = [user_data EXCEPT ![u] =
                     IF text = "blank" THEN Some(s)
                     ELSE Some([s EXCEPT !.genre = Some("genre"),
                                         !.state = Some("waiting_for_count")])]
               /\ handler' = AwaitsReply(u)
          ELSE IF Val(s.state) = "waiting_for_count"
          THEN IF text \in {"blank", "number"}
               THEN /\ \E k \in Slots : procs[k].pc = "free"
                    /\ RoomForProgress(u)
                    /\ user_data' = [user_data EXCEPT ![u] =
                          Some([s EXCEPT !.count = Some("count"),
                                         !.state = Some("collecting")])]
                    /\ handler' = Some([kind |-> "count", user |-> u])
               ELSE /\ user_data' = [user_data EXCEPT ![u] = Some(s)]
                    /\ handler' = AwaitsReply(u)
          ELSE \* no branch for this state: the handler returns at once
               /\ user_data' = [user_data EXCEPT ![u] = Some(s)]
               /\ UNCHANGED handler
    /\ UNCHANGED <<now, runvars, procs, ready, sending>>

\* handle_message, lines 79-83: no session, a reply and nothing else
HandleMessageNoSession(u) ==
    /\ MayHandle
    /\ ~InSessions(u)
    /\ handler' = AwaitsReply(u)
    /\ UNCHANGED <<now, runvars, user_data, procs, ready, sending>>

\* handle_message, lines 140-142: create_task(process_data(...))
CreateTask ==
    /\ NoneCreated
    /\ ~IsNone(handler)
    /\ Val(handler).kind = "count"
    /\ LET k == CHOOSE k \in Slots :
                   /\ procs[k].pc = "free"
                   /\ \A j \in Slots : procs[j].pc = "free" => k <= j
       IN procs' = [procs EXCEPT ![k] =
                       [user |-> Val(handler).user, pc |-> "created",
                        raised |-> FALSE]]
    /\ handler' = None
    /\ UNCHANGED <<now, runvars, user_data, ready, sending>>

\* cleanup_old_sessions, lines 455-467
Expired(u) ==
    /\ InSessions(u)
    /\ ~IsNone(Session(u).last_activity)
    /\ now - Val(Session(u).last_activity) > SessionTimeout

cleanup_old_sessions ==
    /\ NoneCreated
    /\ \E u \in Users : Expired(u)
    /\ user_data' = [u \in Users |-> IF Expired(u) THEN None ELSE user_data[u]]
    /\ UNCHANGED <<now, runvars, handler, procs, ready, sending>>

(* ---------------------------- process_data ----------------------------- *)
\* how collect_all_data and the summary of lines 204-220 may end
CollectOutcomes == {"raised", "nothing", "table", "summary_raised"}

\* the send_progress tasks the callback of line 200 creates during a run
ProgressTasks(u) ==
    [i \in 1..ProgressPerRun |-> [user |-> u, message |-> RunMessages[i]]]

\* the session is there and its state is "collecting"
Collecting(entry) ==
    /\ ~IsNone(entry)
    /\ Val(entry).state = Some("collecting")

\* the task ends: its slot is free again
EndTask(k) == procs' = [procs EXCEPT ![k] = FreeSlot]

\* user_data[user_id]["state"] = "idle" and the clean-up of lines 210-213,
\* 239-242
SessionIdle(s) ==
    [s EXCEPT !.state = Some("idle"), !.progress_message_id = None]

\* lines 191-204: the task starts and calls collect_all_data
ProcStart(k) ==
    /\ ~LoopHeld
    /\ procs[k].pc = "created"
    /\ Len(ready) = 0
    /\ procs' = [procs EXCEPT ![k].pc = "collecting"]
    /\ UNCHANGED <<now, runvars, user_data, handler, ready, sending>>

\* lines 204-209, 217-221, 234-238: collect_all_data returns or raises, and
\* the task goes on to its first await. The send_progress tasks the callback
\* made during the run are waiting for the loop.
ProcRun(k, r) ==
    /\ procs[k].pc = "collecting"
    /\ ready' = ready \o ProgressTasks(procs[k].user)
    /\ procs' = [procs EXCEPT ![k] =
          CASE r = "nothing" -> [@ EXCEPT !.pc = "nf_reply"]
            [] r = "table" -> [@ EXCEPT !.pc = "reporting"]
            [] OTHER -> [@ EXCEPT !.pc = "except_reply", !.raised = TRUE]]
    /\ UNCHANGED <<now, runvars, user_data, handler, sending>>

\* lines 210-214, after the reply of line 207
ProcNothingFound(k) ==
    /\ NoneCreated
    /\ procs[k].pc = "nf_reply"
    /\ LET u == procs[k].user
       IN IF InSessions(u)
          THEN /\ user_data' = [user_data EXCEPT ![u] = Some(SessionIdle(Session(u)))]
               /\ EndTask(k)
          ELSE \* KeyError, caught at line 233
               /\ procs' = [procs EXCEPT ![k].pc = "except_reply"]
               /\ UNCHANGED user_data
    /\ UNCHANGED <<now, runvars, handler, ready, sending>>

\* lines 221-231: the awaits of the report, then the session is updated
ProcReport(k, ok) ==
    /\ NoneCreated
    /\ procs[k].pc = "reporting"
    /\ LET u == procs[k].user
       IN IF ok /\ InSessions(u)
          THEN /\ user_data' = [user_data EXCEPT ![u] =
                     Some([Session(u) EXCEPT !.state = Some("showing_results"),
                                             !.visualizer = TRUE])]
               /\ EndTask(k)
          ELSE \* an exception of the report, or KeyError: line 233
               /\ procs' = [procs EXCEPT ![k].pc = "except_reply",
                                         ![k].raised = @ \/ ~ok]
               /\ UNCHANGED user_data
    /\ UNCHANGED <<now, runvars, handler, ready, sending>>

\* lines 239-242, after the reply of line 235 was sent: without a session the
\* assignment of line 239 raises KeyError inside the except clause, which
\* nothing catches, and the task ends with it
KeyErrorInExcept(k) == ~InSessions(procs[k].user)

ProcExcept(k) ==
    /\ NoneCreated
    /\ procs[k].pc = "except_reply"
    /\ LET u == procs[k].user
       IN user_data' = IF KeyErrorInExcept(k)
                       THEN user_data
                       ELSE [user_data EXCEPT ![u] = Some(SessionIdle(Session(u)))]
    /\ EndTask(k)
    /\ UNCHANGED <<now, runvars, handler, ready, sending>>

(* ---------------------------- send_progress ---------------------------- *)
\* lines 146-177: up to the await of reply_text or of edit_message_text
ProgressStart ==
    /\ ~LoopHeld
    /\ Len(ready) > 0
    /\ LET u == Head(ready).user
           s0 == IF InSessions(u) THEN Session(u) ELSE CreatedNow(EmptySession)
           s1 == IF IsNone(s0.current_phase)
                 THEN [s0 EXCEPT !.current_phase = Some("Fetching")] ELSE s0
           ph == PhaseOf(Head(ready).message)
           s2 == IF IsNone(ph) THEN s1 ELSE [s1 EXCEPT !.current_phase = ph]
       IN /\ user_data' = [user_data EXCEPT ![u] = Some(s2)]
          /\ sending' = IF IsNone(s2.progress_message_id)
                        THEN [sending EXCEPT ![u] = @ + 1]
                        ELSE sending
    /\ ready' = Tail(ready)
    /\ UNCHANGED <<now, runvars, handler, procs>>

\* line 178, after reply_text returned the new message
ProgressSent(u) ==
    /\ NoneCreated
    /\ sending[u] > 0
    /\ sending' = [sending EXCEPT ![u] = @ - 1]
    /\ user_data' = IF InSessions(u)
                    THEN [user_data EXCEPT ![u] =
                            Some([Session(u) EXCEPT !.progress_message_id = Some("msg")])]
                    ELSE user_data   \* KeyError ends the task
    /\ UNCHANGED <<now, runvars, handler, procs, ready>>

InitBot == InitBotState /\ NoVisualizer /\ InitWith({PageSize})

NextBot ==
    \/ BotTick
    \/ \E u \in Users : AnalyzeStart(u)
    \/ AnalyzeFinish
    \/ \E u \in Users : End(u)
    \/ \E u \in Users, text \in TextKinds : HandleMessage(u, text)
    \/ \E u \in Users : HandleMessageNoSession(u)
    \/ HandlerReturn
    \/ CreateTask
    \/ cleanup_old_sessions
    \/ \E k \in Slots : ProcStart(k)
    \/ \E k \in Slots, r \in CollectOutcomes : ProcRun(k, r)
    \/ \E k \in Slots : ProcNothingFound(k)
    \/ \E k \in Slots, ok \in BOOLEAN : ProcReport(k, ok)
    \/ \E k \in Slots : ProcExcept(k)
    \/ ProgressStart
    \/ \E u \in Users : ProgressSent(u)

SpecBot == InitBot /\ [][NextBot]_vars

\* Two users and one loop: which coroutine may run while another is under way.
\* The clock stands still here, and with it cleanup_old_sessions, which only
\* acts on sessions that have aged.
InitLoop ==
    /\ user_data = [u \in 1..LoopUsers |-> None]
    /\ handler = None
    /\ procs = [k \in 1..LoopTasks |-> FreeSlot]
    /\ ready = <<>>
    /\ sending = [u \in 1..LoopUsers |-> 0]
    /\ NoVisualizer
    /\ InitWith({PageSize})

NextLoop ==
    \/ \E u \in Users : AnalyzeStart(u)
    \/ AnalyzeFinish
    \/ \E u \in Users : End(u)
    \/ \E u \in Users, text \in TextKinds : HandleMessage(u, text)
    \/ \E u \in Users : HandleMessageNoSession(u)
    \/ HandlerReturn
    \/ CreateTask
    \/ \E k \in Slots : ProcStart(k)
    \/ \E k \in Slots, r \in CollectOutcomes : ProcRun(k, r)
    \/ \E k \in Slots : ProcNothingFound(k)
    \/ \E k \in Slots, ok \in BOOLEAN : ProcReport(k, ok)
    \/ \E k \in Slots : ProcExcept(k)
    \/ ProgressStart
    \/ \E u \in Users : ProgressSent(u)

SpecLoop == InitLoop /\ [][NextLoop]_vars

\* One analysis of one user, from the creation of its process_data task on:
\* the user has sent /analyze, a genre and a count, and handle_message has
\* returned. No further analysis is started; the user may send /end, and the
\* session may expire.
AnalysisStarted ==
    [CreatedNow(NewSession) EXCEPT !.state = Some("collecting"),
                                   !.genre = Some("genre"),
                                   !.count = Some("count"),
                                   !.last_activity = Some(now)]

InitProgress ==
    /\ InitWith({PageSize})
    /\ user_data = [u \in 1..NumUsers |-> Some(AnalysisStarted)]
    /\ handler = None
    /\ procs = [k \in 1..LoopTasks |->
                   [user |-> 1, pc |-> "created", raised |-> FALSE]]
    /\ ready = <<>>
    /\ sending = [u \in 1..NumUsers |-> 0]
    /\ NoVisualizer

NextProgress ==
    \/ BotTick
    \/ \E u \in Users : End(u)
    \/ HandlerReturn
    \/ cleanup_old_sessions
    \/ \E k \in Slots : ProcStart(k)
    \/ \E k \in Slots, r \in CollectOutcomes : ProcRun(k, r)
    \/ \E k \in Slots : ProcNothingFound(k)
    \/ \E k \in Slots, ok \in BOOLEAN : ProcReport(k, ok)
    \/ \E k \in Slots : ProcExcept(k)
    \/ ProgressStart
    \/ \E u \in Users : ProgressSent(u)

SpecProgress == InitProgress /\ [][NextProgress]_vars

\* The loop does not stop: a coroutine that can run is run, a request to
\* Telegram gets its answer, time passes, and the job queue runs
\* cleanup_old_sessions again and again (run_repeating, interval=600, line 484).
\* What the users send is left free.
LoopStep ==
    \/ AnalyzeFinish
    \/ HandlerReturn
    \/ CreateTask
    \/ \E k \in Slots : ProcStart(k)
    \/ \E k \in Slots, r \in CollectOutcomes : ProcRun(k, r)
    \/ \E k \in Slots : ProcNothingFound(k)
    \/ \E k \in Slots, ok \in BOOLEAN : ProcReport(k, ok)
    \/ \E k \in Slots : ProcExcept(k)
    \/ ProgressStart
    \/ \E u \in Users : ProgressSent(u)

SpecBotLive ==
    /\ SpecBot
    /\ WF_vars(BotTick)
    /\ WF_vars(cleanup_old_sessions)
    /\ WF_vars(LoopStep)

(* ======================================================================= *)
(*                       properties of the pipeline                        *)
(* ======================================================================= *)
IsPrefix(s, t) == Len(s) <= Len(t) /\ \A i \in 1..Len(s) : s[i] = t[i]
Has(s, x) == \E i \in 1..Len(s) : s[i] = x

\* a raw record that survives the ASCII filter and the country filter
Survives(r) ==
    /\ \A i \in 1..Len(r.name) : r.name[i] < AsciiLimit
    /\ ~IsNone(r.country)
    /\ \E c \in {"germany", "sweden"} : lower(Val(r.country)) = c

\* the fetch returned and nothing is left for the table
NothingToShow ==
    /\ Has(finished, "fetch")
    /\ \A i \in 1..Len(fetched_artists) : ~Survives(fetched_artists[i])

(* C1: when the fetch yields no records, or every fetched record is filtered
   out, collect_all_data raises nothing and process_data ends in the
   'nothing found' outcome with the session idle, never in the error outcome
   (a failed write of the export file set aside). *)
C1_NothingFoundIsNotAnError ==
    (pc = "done" /\ NothingToShow /\ exc # Some("OSError"))
        => (exc = None /\ outcome = "nothing_found" /\ state = "idle")

\* the enrichment fields of a row are all null
EnrichmentNull(row) ==
    /\ IsNone(row.spotify_followers)
    /\ IsNone(row.spotify_url)
    /\ IsNone(row.spotify_popularity)
    /\ IsNone(row.spotify_image)

(* C2: a lookup that fails (network error, non-success status, malformed
   body, no match, match with a key missing) leaves its row's four
   enrichment fields null and does not abort the enrichment: no exception
   leaves it and the loop is at the next row. *)
C2_FailedLookupSkipsOneArtist ==
    lk.failed =>
        /\ exc = None
        /\ lk.done
        /\ idx >= 2
        /\ EnrichmentNull(artist_df[idx - 1])

\* the lookup that was started last is over
LookupOver == lk.checked /\ pc \notin {"auth_wait", "search_send", "search_wait"}

(* C3 as stated: a lookup issued while the cached token's expiry is in the
   future performs no authentication request; a lookup issued after the
   expiry performs exactly one, caches the new token and expiry, and then
   performs the search. *)
C3_RefreshAlwaysLeadsToSearch ==
    /\ (lk.checked /\ lk.valid) => lk.auth = 0
    /\ (LookupOver /\ lk.afterExpiry) =>
          /\ lk.auth = 1
          /\ lk.searched
          /\ token # lk.old

(* C3 amended: a lookup issued while a token is cached and its expiry is in
   the future performs no authentication request and searches with the
   cached token; any other lookup performs exactly one authentication
   request; when that request succeeds the new token and expiry are cached
   before the search is sent with it, and when it fails the lookup raises
   and no search is sent. *)
C3_TokenReuse ==
    /\ (lk.checked /\ lk.valid) =>
          /\ lk.auth = 0
          /\ token = lk.old
          /\ lk.searched => Val(sent).token = lk.old
    /\ (lk.checked /\ ~lk.valid) =>
          /\ lk.auth = 1
          /\ lk.searched =>
                /\ token # lk.old
                /\ Val(sent).token = token
                /\ Val(sent).expiry = token_expiry
          /\ (LookupOver /\ ~lk.searched) =>
                /\ exc \in {Some("Failed to get token"), Some("RequestException")}
                /\ token = lk.old

\* a second token was fetched after the first one expired, and the search of
\* the second row went out with it
C3_Witness ==
    /\ lk.afterExpiry
    /\ lk.searched
    /\ lk.auth = 1
    /\ idx = 2
    /\ token = Some(2)

(* C4: when a streaming-search request is sent, the bearer token it carries
   has not passed its declared expiry. *)
C4_TokenNeverUsedPastExpiry ==
    ~IsNone(sent) => Val(sent).at <= Val(Val(sent).expiry)

(* C5: once a token request has been answered with a non-success status,
   the run ends with an error propagated out of collect_all_data: no table
   is returned, no export file is written, the report is never started and
   process_data ends in the error outcome. *)
C5_AuthFailureIsFatal ==
    authFailed =>
        /\ pc \in {"raised", "done"}
        /\ exc = Some("Failed to get token")
        /\ result = "none"
        /\ ~exportWritten
        /\ ~Has(started, "persist")
        /\ ~Has(started, "report")
        /\ outcome \in {"pending", "error"}
        /\ pc = "done" => outcome = "error"

\* the refresh for the second row failed after the first row was enriched
C5_Witness ==
    /\ authFailed
    /\ pc = "done"
    /\ idx = 2
    /\ ~IsNone(artist_df[1].spotify_followers)
    /\ outcome = "error"

(* C10: the phases occur in the order fetch, normalize, enrich, persist,
   report, each starting after the previous one finished; the export file
   is written only after every enrichment lookup is done; and a run whose
   export was not written returns no table and starts no report. *)
C10_PhasesInOrder ==
    /\ IsPrefix(started, PhaseOrder)
    /\ IsPrefix(finished, PhaseOrder)
    /\ Len(finished) <= Len(started)
    /\ Len(started) <= Len(finished) + 1
    /\ exportWritten => (Has(finished, "enrich") /\ idx > Len(artist_df))
    /\ Has(started, "persist") => idx > Len(artist_df)
    /\ (result = "table" \/ Has(started, "report") \/ outcome = "report")
          => exportWritten
    /\ exc = Some("OSError") => (pc \in {"raised", "done"} /\ outcome # "report")

\* a run that went through all five phases and ended with the report
C10_Witness ==
    /\ pc = "done"
    /\ outcome = "report"
    /\ started = PhaseOrder
    /\ finished = PhaseOrder
    /\ Len(artist_df) = 2

\* collect_all_data is over: it returned or it raised
CollectOver == pc \in {"returned", "raised", "done", "report"}

(* C21: every HTTP request of a run (catalog page, token request, streaming
   search) has a bounded wait, so a run of collect_all_data always
   terminates, by returning or by raising, even when a service never
   answers one of its requests. *)
C21_RunTerminates == <>CollectOver

(* --------------------------- fetch_artists ----------------------------- *)
\* the records of the pages that were parsed, in the order of the requests
RECURSIVE ParsedRecords(_)
ParsedRecords(resps) ==
    IF Len(resps) = 0 THEN <<>>
    ELSE LET last == resps[Len(resps)]
             before == ParsedRecords(SubSeq(resps, 1, Len(resps) - 1))
         IN IF last.kind = "http" /\ last.status_code = 200
               /\ last.content.kind = "json"
            THEN before \o last.content.artists
            ELSE before

NonSuccess(r) == r.kind = "http" /\ r.status_code # 200

(* C6: after the first page response with a non-success status no further
   page request is issued, no offset is requested twice, and the result is
   the records of all earlier parsed pages in request order. *)
C6_StopsAtFirstFailure ==
    /\ \A i, j \in 1..Len(requested) : i # j => requested[i] # requested[j]
    /\ \A i \in 1..Len(responses) :
          NonSuccess(responses[i]) =>
              /\ Len(requested) = i
              /\ pc = "fetch_done"
              /\ fetched_artists = ParsedRecords(SubSeq(responses, 1, i - 1))

\* of three pages the second failed after the first had brought one record
C6_Witness ==
    /\ pc = "fetch_done"
    /\ Len(responses) = 2
    /\ NonSuccess(responses[2])
    /\ Len(fetched_artists) = 1
    /\ number_of_artists = 3 * PageSize

\* a body that does not parse as JSON: garbage, or nothing at all
NotValidJSON(r) == r.kind = "http" /\ r.content.kind # "json"

\* the offset after the one of request i is within the range of the run
HasNextOffset(i) == requested[i] + PageSize < number_of_artists + FirstOffset

(* C7 as stated: a page answered with success status and a body that is not
   valid JSON contributes no record and does not abort the fetch: paging
   goes on with the next offset. *)
C7_AnyInvalidBodyIsAnEmptyPage ==
    \A i \in 1..Len(responses) :
        (responses[i].status_code = 200 /\ NotValidJSON(responses[i])) =>
            /\ exc # Some("ValueError")
            /\ (HasNextOffset(i) /\ Has(finished, "fetch")) => Len(requested) > i

(* C7 amended: a page answered with success status and a non-empty body
   that is not valid JSON contributes no record and does not abort the
   fetch: paging goes on with the next offset, and when the fetch returns
   its result is the records of all parsed pages, earlier and later, in
   request order.  (A success status with an empty body ends the paging.) *)
C7_MalformedPageIsEmpty ==
    /\ \A i \in 1..Len(responses) :
          (responses[i].status_code = 200 /\ responses[i].content.kind = "garbage") =>
              /\ exc # Some("ValueError")
              /\ pc # "fetch_wait" =>
                    fetched_artists = ParsedRecords(responses)
              /\ (HasNextOffset(i) /\ pc = "fetch_done") => Len(requested) > i
              /\ (~HasNextOffset(i) /\ i = Len(responses)) =>
                    pc \in {"fetch_loop", "fetch_done"}
    /\ pc = "fetch_done" => fetched_artists = ParsedRecords(responses)

\* a malformed page between two pages that brought a record each
C7_Witness ==
    /\ pc = "fetch_done"
    /\ Len(responses) = 3
    /\ responses[2].content.kind = "garbage"
    /\ responses[2].status_code = 200
    /\ Len(fetched_artists) = 2
    /\ fetched_artists[2].id = 2

(* ======================================================================= *)
(*                       properties of the front-end                       *)
(* ======================================================================= *)
\* the process_data tasks of user u that were created and have not ended
Outstanding(u) == {k \in Slots : procs[k].pc # "free" /\ procs[k].user = u}

(* C8: for one user session at most one pipeline run (process_data, from
   fetch through report) is outstanding at any time. *)
C8_OnePipelinePerSession ==
    \A u \in Users : Cardinality(Outstanding(u)) <= 1

(* C9: whenever the pipeline raised inside process_data, the task ends from
   its except clause without an unhandled exception, whatever /end and the
   expiry cleanup did meanwhile, and the session, if it is still there, is
   then not in the 'collecting' state. *)
C9_ExceptClauseAlwaysCompletes ==
    [][\A k \in Slots :
          (procs[k].pc = "except_reply" /\ procs[k].raised /\ procs'[k].pc = "free")
              => /\ ~KeyErrorInExcept(k)
                 /\ ~Collecting(user_data'[procs[k].user])]_vars

\* the time of the last thing the user did with the session: the /analyze
\* that made it or the last text message (an entry that send_progress made
\* counts from the time it was made)
LastEvent(u) ==
    LET s == Session(u)
    IN IF ~IsNone(s.last_activity) /\ Val(s.last_activity) > Val(s.created)
       THEN Val(s.last_activity) ELSE Val(s.created)

\* there is a session of u, and u has done nothing for longer than the timeout
IdleTooLong(u) ==
    /\ InSessions(u)
    /\ now - LastEvent(u) > SessionTimeout

(* C18: every session, in whatever state it was created or left, is
   eventually destroyed: once its user has been inactive for longer than the
   timeout, the periodic cleanup removes it from the session map. *)
C18_IdleSessionsAreRemoved ==
    \A u \in 1..NumUsers : IdleTooLong(u) ~> ~IdleTooLong(u)

(* C19: an entry for a user comes into the session map only by that user's
   /analyze: no other handler and no background task (progress reporting,
   the end of a pipeline run) puts an entry there for a user who has none,
   be it after /end or after the expiry cleanup. *)
C19_OnlyAnalyzeCreatesSessions ==
    [][\A u \in Users :
          (~InSessions(u) /\ ~IsNone(user_data'[u]))
              => /\ ~IsNone(handler)
                 /\ Val(handler).kind = "analyze"
                 /\ Val(handler).user = u]_vars

(* C20: while one session's pipeline is running, the front-end can still
   handle an event of another user's session before that pipeline finishes:
   the pipeline does not hold the event loop. With no handler under way and
   no task waiting for its turn, a command of another user can be taken up
   while process_data is inside collect_all_data. *)
C20_OtherUsersServedDuringPipeline ==
    \A k \in Slots :
        (procs[k].pc = "collecting" /\ IsNone(handler) /\ Len(ready) = 0)
            => \E u \in Users \ {procs[k].user} : ENABLED AnalyzeStart(u)

(* ======================================================================= *)
(*                    properties of process_artist_data                    *)
(* ======================================================================= *)
\* process_artist_data returned a table
Returned == pc = "returned" /\ result = "pair"

\* the raw record a row of the table was made from
RawOf(row) == CHOOSE r \in {fetched_artists[i] : i \in 1..Len(fetched_artists)} :
                  r.id = row.id

(* C11: in the table process_artist_data returns, Ended is true of a row if
   and only if its Year_disbanded is non-null, whatever life-span.ended was. *)
C11_EndedIffDisbanded ==
    Returned =>
        \A i \in 1..Len(artist_df) :
            artist_df[i].Ended <=> ~IsNone(artist_df[i].Year_disbanded)

\* the first four characters of the date (all of it when it is shorter) are
\* there and are all decimal digits
LeadingDigits(d) ==
    /\ ~IsNone(d)
    /\ Len(Val(d)) > 0
    /\ \A i \in 1..Len(Val(d)) :
          i <= YearLen => (Val(d)[i] >= Chr_0 /\ Val(d)[i] <= Chr_9)

(* C12: for every begin and end date of a raw record, year extraction never
   raises, gives an integer only when the first 4 characters of the date are
   all digits, and gives null otherwise. *)
C12_YearOnlyFromLeadingDigits ==
    pc # "process_artist_data" =>
        /\ exc = None
        /\ \A i \in 1..Len(fetched_artists) :
              \A d \in {fetched_artists[i].begin, fetched_artists[i].end} :
                  ~IsNone(extract_year(d)) <=> LeadingDigits(d)
        /\ \A i \in 1..Len(artist_df) :
              /\ ~IsNone(artist_df[i].Year_formed)
                    <=> LeadingDigits(RawOf(artist_df[i]).begin)
              /\ ~IsNone(artist_df[i].Year_disbanded)
                    <=> LeadingDigits(RawOf(artist_df[i]).end)

(* C13: every row of the returned table has an ASCII name and a non-null
   country that equals, ignoring case, an entry of the Country Reference; a
   record with a non-ASCII name, a null country or a country absent from the
   reference is not in the table, and every other record is. *)
C13_OnlyAsciiNamesOfReferenceCountries ==
    Returned =>
        /\ \A i \in 1..Len(artist_df) :
              /\ \A j \in 1..Len(artist_df[i].name) : artist_df[i].name[j] < AsciiLimit
              /\ ~IsNone(artist_df[i].Country_name)
              /\ \E c \in {"germany", "sweden"} :
                    lower(Val(artist_df[i].Country_name)) = c
        /\ \A i \in 1..Len(fetched_artists) :
              Survives(fetched_artists[i]) <=>
                  \E j \in 1..Len(artist_df) : artist_df[j].id = fetched_artists[i].id

\* of two records the one with a non-ASCII name was dropped and the one whose
\* country differs from the reference in case only was kept
C13_Witness ==
    /\ Returned
    /\ Len(fetched_artists) = 2
    /\ fetched_artists[1].name = NameBjork
    /\ Len(artist_df) = 1
    /\ artist_df[1].Country_name = Some("GERMANY")

(* C14: process_artist_data returns None exactly when its input is empty;
   for a non-empty input it returns a table, which is empty when every
   record was filtered out. *)
C14_NoneOnlyForEmptyInput ==
    /\ pc = "returned" =>
          /\ result = "no_data" <=> Len(fetched_artists) = 0
          /\ result = "pair" <=> Len(fetched_artists) > 0
          /\ (Returned /\ \A i \in 1..Len(fetched_artists) : ~Survives(fetched_artists[i]))
                => artist_df = <<>>
    /\ pc = "raised" => Len(fetched_artists) > 0

\* two records went in, both were filtered out, and an empty table came back
C14_Witness ==
    /\ Returned
    /\ Len(fetched_artists) = 2
    /\ artist_df = <<>>

(* ======================================================================= *)
(*                     properties of the report builder                    *)
(* ======================================================================= *)
\* the rows of the table whose country is exactly c
RowsOf(c) == {i \in 1..Len(artist_df) : artist_df[i].Country_name = Some(c)}

\* the reference holds a numeric population for exactly the name c
HasNumericPopulation(c) ==
    \E j \in 1..Len(countries_df) :
        /\ countries_df[j].Country_name = c
        /\ countries_df[j].population.kind = "int"

\* every entry of a ranking stands for at least three artists of a country
\* whose population the reference gives as a number
AllQualified(ranking) ==
    \A k \in 1..Len(ranking) :
        /\ Cardinality(RowsOf(ranking[k].Country_name)) >= 3
        /\ HasNumericPopulation(ranking[k].Country_name)

(* C15: in the summary and in the artists-per-million chart, no country with
   fewer than 3 matched artists and no country whose population is missing or
   non-numeric appears in the per-million ranking. *)
C15_RankingNeedsThreeArtistsAndAPopulation ==
    /\ ~IsNone(summary) => AllQualified(Val(summary).top_per_million)
    /\ ~IsNone(chart) => AllQualified(Val(chart))

\* of five artists three are of Sweden, which is ranked in both reports, and
\* two of Germany, which is not although its population is known
C15_Witness ==
    /\ ~IsNone(summary)
    /\ ~IsNone(chart)
    /\ Cardinality(RowsOf("Sweden")) = 3
    /\ Cardinality(RowsOf("Germany")) = 2
    /\ HasNumericPopulation("Germany")
    /\ Len(Val(summary).top_per_million) = 1
    /\ Val(summary).top_per_million[1].Country_name = "Sweden"
    /\ Len(Val(chart)) = 1

\* a ratio that is a finite number
Finite(r) == r.kind = "num" /\ r.den # 0

(* C16: every ratio of the report is guarded against a zero denominator:
   with an empty table the percentages are 0, and no percentage and no
   per-million rate that is reported or ranked is an error or non-finite. *)
C16_NoRatioDividesByZero ==
    /\ ~IsNone(summary) =>
          /\ \A r \in {Val(summary).active_percent, Val(summary).disbanded_percent,
                        Val(summary).spotify_percent} :
                /\ Finite(r)
                /\ Len(artist_df) = 0 => r.num = 0
          /\ \A k \in 1..Len(Val(summary).top_per_million) :
                Finite(Val(summary).top_per_million[k].ArtistsPerMillion)
    /\ ~IsNone(chart) =>
          \A k \in 1..Len(Val(chart)) : Finite(Val(chart)[k].ArtistsPerMillion)

\* the rows with a formation year, and the least and greatest of the years
WithYear == {i \in 1..Len(artist_df) : ~IsNone(artist_df[i].Year_formed)}
FirstYear == CHOOSE y \in {Val(artist_df[i].Year_formed) : i \in WithYear} :
                \A i \in WithYear : y <= Val(artist_df[i].Year_formed)
LastYear == CHOOSE y \in {Val(artist_df[i].Year_formed) : i \in WithYear} :
                \A i \in WithYear : y >= Val(artist_df[i].Year_formed)

\* year y lies in the k-th of 5 ranges of equal width from FirstYear to
\* LastYear, a range holding its upper end and the first one its lower end too
InRange(y, k) ==
    \/ k = 1 /\ y = FirstYear
    \/ /\ 5 * (y - FirstYear) > (k - 1) * (LastYear - FirstYear)
       /\ 5 * (y - FirstYear) <= k * (LastYear - FirstYear)

\* the artists whose formation year lies in range k
InRangeCount(k) ==
    Cardinality({i \in WithYear : InRange(Val(artist_df[i].Year_formed), k)})

\* b is the earliest of the ranges that hold the most artists
EarliestFullest(b) ==
    /\ b \in 1..5
    /\ \A k \in 1..5 : InRangeCount(k) <= InRangeCount(b)
    /\ \A k \in 1..(b - 1) : InRangeCount(k) < InRangeCount(b)

(* C17 as stated: for every table with a formation year, the peak period is
   the earliest of the fullest of 5 equal-width ranges spanning the least
   and the greatest year. *)
C17_EveryTableHasAPeak ==
    (~IsNone(summary) /\ WithYear # {}) =>
        /\ ~IsNone(Val(summary).peak_period)
        /\ FirstYear < LastYear => EarliestFullest(Val(Val(summary).peak_period).bucket)

(* C17 amended: with fewer than two formation years the summary reports
   "Insufficient data"; with two or more that differ, the peak period is the
   earliest of the fullest of 5 equal-width ranges spanning the least and
   the greatest year, its upper end being FirstYear + b/5 of the span; with
   two or more that are all equal it is the third of five ranges around
   that year. *)
C17_PeakIsEarliestFullestRange ==
    ~IsNone(summary) =>
        LET peak == Val(summary).peak_period
        IN IF Cardinality(WithYear) < 2 THEN IsNone(peak)
           ELSE /\ ~IsNone(peak)
                /\ IF FirstYear < LastYear
                   THEN /\ EarliestFullest(Val(peak).bucket)
                        /\ Val(peak).right =
                              5000 * FirstYear
                                + 1000 * Val(peak).bucket * (LastYear - FirstYear)
                   ELSE /\ Val(peak).bucket = 3
                        /\ Val(peak).left < 5000 * FirstYear
                        /\ Val(peak).right > 5000 * FirstYear

\* the years 1990, 1991, 2000 and 2010: the first range holds two artists, no
\* other range as many
C17_Witness ==
    /\ ~IsNone(summary)
    /\ [i \in 1..Len(artist_df) |-> artist_df[i].Year_formed]
          = <<Some(1990), Some(1991), Some(2000), Some(2010)>>
    /\ Val(Val(summary).peak_period).bucket = 1
    /\ InRangeCount(1) = 2
    /\ InRangeCount(3) = 1
    /\ InRangeCount(5) = 1

\* the reference entry a surviving row matched in the filter of line 168
MatchedReference(row, ref) ==
    ref[CHOOSE i \in 1..Len(ref) :
            lower(ref[i].Country_name) = lower(Val(row.Country_name))]

\* the rows of the table that matched the same reference entry as row
SameReference(row, df) ==
    {j \in 1..Len(df) :
        /\ ~IsNone(df[j].Country_name)
        /\ lower(Val(df[j].Country_name)) = lower(Val(row.Country_name))}

(* C22: every row that survived the case-insensitive country filter is, in
   the per-million computation, counted under the reference country it
   matched and joined with that country's population: the group of its
   country holds all the rows that matched the same reference entry, and
   its population is that of the entry. *)
C22_SurvivorsCountedUnderTheirReference ==
    (~IsNone(summary) \/ ~IsNone(chart)) =>
        LET groups == artist_per_country(artist_df, countries_df)
        IN \A i \in 1..Len(artist_df) :
              ValidCountry(artist_df[i], countries_df) =>
                 \E k \in 1..Len(groups) :
                    /\ groups[k].Country_name = Val(artist_df[i].Country_name)
                    /\ groups[k].ArtistsCount
                          = Cardinality(SameReference(artist_df[i], artist_df))
                    /\ groups[k].ArtistsPerMillion
                          = ArtistsPerMillion(
                               groups[k].ArtistsCount,
                               to_numeric(MatchedReference(artist_df[i],
                                                           countries_df).population))

(* ======================================================================= *)
(*                    properties of the progress messages                  *)
(* ======================================================================= *)
(* C23: for one analysis at most one progress message is created in the
   chat: whatever the order in which the progress tasks of the run get the
   loop, only the first send_progress sends a new message (reply_text),
   the later ones edit it; there are never two new messages under way. *)
C23_OneProgressMessage == \A u \in Users : sending[u] <= 1

====
